---- MODULE Spec2Model ----
(***************************************************************************)
(* Model of the Mermaid pipeline compiler of bwv-zeug: the diagram parser  *)
(* (invoke/tasks_mermaid.py), the graph analysis and the Kahn scheduler    *)
(* (topological_sort_tasks), and the code generator                        *)
(* (invoke/tasks_mermaid_utils.py, invoke/tasks_mermaid_generator.py).     *)
(*                                                                         *)
(* Text (node ids, file names, task names, commands) is a sequence of      *)
(* one-character strings, so that str.replace, str.startswith and the      *)
(* ordering used by list.sort are computed character by character.         *)
(***************************************************************************)
EXTENDS Integers, Sequences, FiniteSets, TLC

VARIABLES
    pc,            \* position of the invocation
    diagram,       \* which diagram text is handed to the parser
    nodes,         \* node declarations parsed so far, in text order
    edges,         \* pipeline.edges / listener.edges, in text order
    cursor,        \* position of the edge scanner in the diagram text
    dependencies,  \* topological_sort_tasks: task id -> list of task ids
    in_degree,     \* topological_sort_tasks: task id -> counter
    queue,         \* topological_sort_tasks: the work list
    result,        \* topological_sort_tasks: task ids emitted so far
    task_names,    \* topological_sort_tasks: the returned list
    analysis,      \* what analyze_task_dependencies / get_task_info returned
    traced,        \* what trace_task_dependencies returned
    generated,     \* what generate_tasks_file / generate_all_task returned
    regenerated,   \* the same generation, run a second time
    final_tasks,   \* what get_final_tasks_from_listener returned
    text,          \* placeholder substitution: the text handed in
    project,       \* placeholder substitution: the project name
    cwd,           \* placeholder substitution: the working-directory value
    once,          \* the text after one substitution
    twice,         \* the text after a second substitution
    output_file,   \* the content of the generated output file
    writes,        \* how often the invocation wrote the output file
    executed,      \* mermaid_run: what was run, in order
    reported,      \* mermaid_run: what the caller was told
    runnable_text, \* managed script: the content of the Runnable node
    encoded,       \* managed script: Runnable.command
    decoded,       \* managed script: what _run_single_mermaid_task calls
    messages,      \* extract_note_intervals: the messages of the MIDI file
    current_tick,  \* extract_note_intervals: elapsed ticks
    note_stack,    \* extract_note_intervals: pitch -> pending (start, channel)
    note_events,   \* extract_note_intervals: the completed notes
    max_tick       \* extract_note_intervals: the greatest tick seen

\* the variables of the placeholder substitution
resolveVars == <<text, project, cwd, once, twice>>

\* the variables of a run that writes the output file or executes tasks
runVars == <<output_file, writes, executed, reported>>

\* the variables of the managed-script encoding
scriptVars == <<runnable_text, encoded, decoded>>

\* the variables of extract_note_intervals
midiVars == <<messages, current_tick, note_stack, note_events, max_tick>>

vars == <<pc, diagram, nodes, edges, cursor, dependencies, in_degree, queue,
          result, task_names, analysis, traced, generated, regenerated,
          final_tasks, resolveVars, runVars, scriptVars, midiVars>>

(***************************************************************************)
(* Bounds                                                                  *)
(***************************************************************************)
\* greatest number of edge statements a diagram holds
MaxEdges == 6

\* the longest diagram, in edge statements, that the sort is followed to its end on
MaxLines == 10

\* greatest number of arguments of a managed script
MaxArgs == 2

\* greatest number of messages of a MIDI file
MaxMessages == 3

(***************************************************************************)
(* Text                                                                    *)
(***************************************************************************)
Range(s) == {s[i] : i \in 1..Len(s)}

\* ord() of the characters node ids are made of
Ord(c) ==
    CASE c = "0" -> 48 [] c = "1" -> 49 [] c = "2" -> 50 [] c = "3" -> 51
      [] c = "E" -> 69 [] c = "I" -> 73 [] c = "O" -> 79 [] c = "R" -> 82
      [] c = "T" -> 84

\* Python's a < b on str: the first differing character decides, a proper
\* prefix is smaller
RECURSIVE StrLess(_, _)
StrLess(a, b) ==
    IF b = <<>> THEN FALSE
    ELSE IF a = <<>> THEN TRUE
    ELSE IF Head(a) = Head(b) THEN StrLess(Tail(a), Tail(b))
    ELSE Ord(Head(a)) < Ord(Head(b))

\* s.startswith(prefix)
StartsWith(s, prefix) ==
    /\ Len(s) >= Len(prefix)
    /\ SubSeq(s, 1, Len(prefix)) = prefix

\* s.replace(old, new): left to right, non-overlapping, old non-empty
RECURSIVE Replace(_, _, _)
Replace(s, old, new) ==
    IF s = <<>> THEN <<>>
    ELSE IF StartsWith(s, old)
         THEN new \o Replace(SubSeq(s, Len(old) + 1, Len(s)), old, new)
         ELSE <<Head(s)>> \o Replace(Tail(s), old, new)

\* s.endswith(suffix)
EndsWith(s, suffix) ==
    /\ Len(s) >= Len(suffix)
    /\ SubSeq(s, Len(s) - Len(suffix) + 1, Len(s)) = suffix

\* s.split(sep) for a one-character sep: the pieces between the separators,
\* empty pieces kept
RECURSIVE SplitOn(_, _)
SplitOn(s, sep) ==
    IF \A i \in 1..Len(s) : s[i] # sep THEN <<s>>
    ELSE LET k == CHOOSE i \in 1..Len(s) : s[i] = sep /\ \A j \in 1..(i - 1) : s[j] # sep
         IN <<SubSeq(s, 1, k - 1)>> \o SplitOn(SubSeq(s, k + 1, Len(s)), sep)

\* s.split(): the pieces between runs of blanks, empty pieces dropped
SplitWs(s) == SelectSeq(SplitOn(s, " "), LAMBDA piece : piece # <<>>)

\* sep.join(parts)
RECURSIVE Join(_, _)
Join(parts, sep) ==
    IF parts = <<>> THEN <<>>
    ELSE IF Len(parts) = 1 THEN parts[1]
    ELSE parts[1] \o sep \o Join(Tail(parts), sep)

\* str(Path(s)): empty and "." components dropped, a leading slash kept
PathOf(s) ==
    LET kept == SelectSeq(SplitOn(s, "/"), LAMBDA piece : piece # <<>> /\ piece # <<".">>)
        root == IF StartsWith(s, <<"/">>) THEN <<"/">> ELSE <<>>
    IN IF kept = <<>> /\ root = <<>> THEN <<".">> ELSE root \o Join(kept, <<"/">>)

\* concatenation of a sequence of sequences
RECURSIVE Flat(_)
Flat(ss) == IF ss = <<>> THEN <<>> ELSE Head(ss) \o Flat(Tail(ss))

\* the orders in which the elements of a set can be listed
Perms(S) ==
    {p \in [1..Cardinality(S) -> S] : \A i, j \in 1..Cardinality(S) : p[i] = p[j] => i = j}

\* sub in s
Contains(s, sub) ==
    \E i \in 0..(Len(s) - Len(sub)) : SubSeq(s, i + 1, i + Len(sub)) = sub

\* c.lower() for the letters the commands are written with
LowerChar(c) ==
    CASE c = "B" -> "b" [] c = "D" -> "d" [] c = "P" -> "p" [] c = "V" -> "v"
      [] c = "W" -> "w" [] OTHER -> c

\* s.lower()
Lower(s) == [i \in 1..Len(s) |-> LowerChar(s[i])]

BWV000 == <<"B", "W", "V", "0", "0", "0">>
PWD == <<"P", "W", "D">>
ScriptPrefix == <<"b", "w", "v", "_", "s", "c", "r", "i", "p", "t", ":">>
ScriptTag == <<"B", "W", "V", "_", "S", "C", "R", "I", "P", "T", ":">>
Python3 == <<"p", "y", "t", "h", "o", "n", "3", " ">>
DotPy == <<".", "p", "y">>

\* the tokens the generator writes for the generated module to fill in
ProjectToken == <<"{", "P", "R", "O", "J", "E", "C", "T", "_", "N", "A", "M", "E", "}">>
CwdToken == <<"{", "P", "a", "t", "h", ".", "c", "w", "d", "(", ")", "}">>
DockerWord == <<"d", "o", "c", "k", "e", "r">>
RunWord == <<"r", "u", "n">>
DotLy == <<".", "l", "y">>

\* the placeholder substitution: replace 'BWV000' by p, then 'PWD' by d
Resolve(s, p, d) == Replace(Replace(s, BWV000, p), PWD, d)

\* project.name of the invocation
ProjectName == <<"b", "w", "v", "1", "0", "0", "6">>

(***************************************************************************)
(* Diagrams: the node declarations and the edge statements a text may hold *)
(***************************************************************************)
I1 == <<"I", "1">>
T1 == <<"T", "1">>
T2 == <<"T", "2">>
T10 == <<"T", "1", "0">>
R1 == <<"R", "1">>
R2 == <<"R", "2">>
O1 == <<"O", "1">>
O2 == <<"O", "2">>
E1 == <<"E", "1">>

Decl(id, content, description) ==
    [id |-> id, content |-> content, description |-> description]

BuildPdf == <<"b", "u", "i", "l", "d", "_", "p", "d", "f">>
MakeSvg == <<"m", "a", "k", "e", "_", "s", "v", "g">>
Notes == <<"n", "o", "t", "e", "s">>
Render == <<"r", "e", "n", "d", "e", "r", " ">> \o BWV000
Script == ScriptPrefix \o <<"x", ".", "p", "y", " ">> \o BWV000
NoText == <<>>
Docker == DockerWord \o <<" ">> \o RunWord \o <<" ">> \o PWD \o <<" ">> \o BWV000
ScriptPwd == Script \o <<" ">> \o PWD

DI1 == Decl(I1, BWV000 \o <<".", "l", "y">>, NoText)
DT1 == Decl(T1, BuildPdf, <<"R", "e", "n", "d", "e", "r">>)
DT2 == Decl(T2, MakeSvg, NoText)
DT10 == Decl(T10, Notes, NoText)
DR1 == Decl(R1, Render, NoText)
DR2 == Decl(R2, Script, NoText)
DO1 == Decl(O1, BWV000 \o <<".", "p", "d", "f">>, NoText)
DO2 == Decl(O2, BWV000 \o <<".", "s", "v", "g">>, NoText)
DE1 == Decl(E1, <<"e", "/">> \o BWV000 \o <<".", "s", "v", "g">>, NoText)

\* the fourth diagram: an Input below the working directory, a managed script
\* that is told the working directory, a container command
DI1p == Decl(I1, PWD \o <<"/">> \o BWV000 \o DotLy, NoText)
DR1s == Decl(R1, ScriptPwd, NoText)
DR2d == Decl(R2, Docker, NoText)

\* the sixth diagram: the managed-script prefix followed by nothing
DR1bad == Decl(R1, ScriptPrefix, NoText)

\* the edge statements of the first diagram, in text order
EdgeLines ==
    << <<I1, T1>>, <<T1, R1>>, <<R1, O1>>, <<O1, T2>>, <<T2, R2>>, <<R2, E1>>,
       <<R2, O2>>, <<O2, T1>>, <<R1, O2>>, <<O2, T2>>, <<T2, T1>>, <<T1, R1>>,
       <<O1, T10>>, <<T1, R2>>, <<T10, T2>> >>

\* the edge statements of the third diagram, in text order
DanglingLines ==
    << <<I1, T1>>, <<T1, R1>>, <<R1, O1>>, <<O1, T2>>, <<T2, R2>>, <<R2, E1>>,
       <<R1, O2>>, <<O2, T2>>, <<O1, T10>>, <<T2, T1>> >>

Reverse(s) == [i \in 1..Len(s) |-> s[Len(s) + 1 - i]]

\* a node as an edge statement mentions it: the bare id, or the id followed
\* by its bracketed content
Bare(id) == [id |-> id, shaped |-> FALSE]
Shaped(id) == [id |-> id, shaped |-> TRUE]

\* the matches of (\w+)\s*-->\s*(\w+) in one statement n1 --> n2 --> ... :
\* the left id must touch the arrow, so a bracket before the arrow prevents
\* the match, and a match consumes its right id
RECURSIVE ChainMatches(_)
ChainMatches(statement) ==
    IF Len(statement) < 2 THEN <<>>
    ELSE IF ~statement[1].shaped
         THEN << <<statement[1].id, statement[2].id>> >>
              \o ChainMatches(SubSeq(statement, 3, Len(statement)))
         ELSE ChainMatches(Tail(statement))

\* re.finditer over the whole text, one statement per line
EdgeMatches(statements) ==
    Flat([i \in 1..Len(statements) |-> ChainMatches(statements[i])])

\* the edge statements of the fourth diagram, in text order
DockerText ==
    << <<Bare(I1), Bare(T1)>>, <<Bare(T1), Bare(R1)>>, <<Bare(R1), Bare(O1)>>,
       <<Shaped(I1), Bare(O1), Bare(T2)>>, <<Bare(T2), Bare(R2)>>,
       <<Bare(R2), Bare(E1)>>, <<Bare(E1), Bare(T1)>>, <<Bare(R2), Bare(O2)>> >>

\* the one statement of the fifth diagram:
\* I1[BWV000.ly] --> T1[build_pdf] --> R1[render BWV000] --> O1[BWV000.pdf]
LinearText == << <<Shaped(I1), Shaped(T1), Shaped(R1), Shaped(O1)>> >>

\* a node declaration as the text holds it: with its closing bracket, or
\* with the closing bracket missing
Closed(decl) == [decl |-> decl, closed |-> TRUE]
Unclosed(decl) == [decl |-> decl, closed |-> FALSE]

\* the text between the brackets of a declaration, cut at <br/>
RawParts(decl) ==
    IF decl.description = <<>> THEN <<decl.content>>
    ELSE <<decl.content, decl.description>>

\* [^\]]+ with re.DOTALL runs on to the next closing bracket: the text
\* between the opening bracket of token i and the closing bracket of token j,
\* cut at <br/>
RECURSIVE BracketText(_, _, _)
BracketText(tokens, i, j) ==
    IF i = j THEN RawParts(tokens[i].decl)
    ELSE LET before == BracketText(tokens, i, j - 1)
             next == RawParts(tokens[j].decl)
             seam == before[Len(before)] \o <<"\n">> \o tokens[j].decl.id \o <<"[">> \o next[1]
         IN SubSeq(before, 1, Len(before) - 1) \o <<seam>> \o Tail(next)

\* re.finditer of one node pattern over the text, from token i on: the
\* matches, each with the place it starts at
RECURSIVE ScanFrom(_, _, _)
ScanFrom(kind, tokens, i) ==
    IF i > Len(tokens) THEN <<>>
    ELSE IF Head(tokens[i].decl.id) # kind THEN ScanFrom(kind, tokens, i + 1)
    ELSE LET closers == {j \in i..Len(tokens) : tokens[j].closed}
         IN IF closers = {} THEN <<>>
            ELSE LET j == CHOOSE c \in closers : \A d \in closers : c <= d
                     lines == BracketText(tokens, i, j)
                 IN <<[at |-> i,
                       node |-> Decl(tokens[i].decl.id, lines[1],
                                     IF Len(lines) > 1 THEN lines[2] ELSE NoText)]>>
                    \o ScanFrom(kind, tokens, j + 1)

\* the five node scans of parse_file, their matches put in text order
ParseDeclarations(tokens) ==
    LET found == ScanFrom("I", tokens, 1) \o ScanFrom("T", tokens, 1)
                 \o ScanFrom("O", tokens, 1) \o ScanFrom("R", tokens, 1)
                 \o ScanFrom("E", tokens, 1)
    IN Flat([i \in 1..Len(tokens) |->
             Flat([k \in 1..Len(found) |->
                    IF found[k].at = i THEN <<found[k].node>> ELSE <<>>])])

\* the declarations of the seventh diagram: T1 lacks its closing bracket
MalformedText ==
    <<Closed(DI1), Unclosed(Decl(T1, BuildPdf, NoText)), Closed(DT2), Closed(DR1),
      Closed(DO1)>>

\* a diagram: its node declarations and its candidate edge statements
Diagrams ==
    << \* every node declared, producers first
      [decls |-> <<DI1, DT1, DR1, DO1, DT2, DR2, DO2, DE1, DT10>>,
       lines |-> EdgeLines],
      \* consumers declared before their producers, statements bottom up
      [decls |-> <<DT10, DE1, DO2, DR2, DT2, DO1, DR1, DT1, DI1>>,
       lines |-> Reverse(SubSeq(EdgeLines, 1, 10))],
      \* R2, O2 and T10 referenced by edges but never declared
      [decls |-> <<DT2, DI1, DT1, DR1, DO1, DE1>>,
       lines |-> DanglingLines],
      \* both placeholders in a file name and in a managed script's arguments
      [decls |-> <<DI1p, DT1, DR1s, DO1, DT2, DR2d, DO2, DE1>>,
       lines |-> EdgeMatches(DockerText)],
      \* the linear pipeline written as one statement
      [decls |-> <<DI1, DT1, DR1, DO1>>,
       lines |-> EdgeMatches(LinearText)],
      \* a managed-script prefix without a script
      [decls |-> <<DT1, DR1bad, DO1>>,
       lines |-> << <<T1, R1>>, <<R1, O1>> >>],
      \* a declaration without its closing bracket
      [decls |-> ParseDeclarations(MalformedText),
       lines |-> << <<I1, T1>>, <<T1, R1>>, <<T2, R1>>, <<R1, O1>> >>],
      \* two Task nodes that carry the same name
      [decls |-> <<DT1, Decl(T2, BuildPdf, NoText), DR1, DO1>>,
       lines |-> << <<T1, R1>>, <<R1, O1>>, <<O1, T2>> >>],
      \* the path of a file that is not there
      [decls |-> <<>>,
       lines |-> <<>>] >>

\* mermaid_path.exists(): the last path names no file
Exists(d) == d # Len(Diagrams)

\* parse_file on a missing file ends in an exception
MissingFileRaises(d) == "failed"

\* parse_file on a missing file: a warning and the empty Pipeline
MissingFileOutcome(d) == "edges"

(***************************************************************************)
(* MermaidParser: the Pipeline tables                                      *)
(***************************************************************************)
Kind(id) == Head(id)

NodesOfKind(k) == {nodes[i] : i \in {j \in 1..Len(nodes) : Kind(nodes[j].id) = k}}

\* pipeline.tasks, pipeline.inputs, ... : the keys of each table
TaskIds == {n.id : n \in NodesOfKind("T")}
InputIds == {n.id : n \in NodesOfKind("I")}
OutputIds == {n.id : n \in NodesOfKind("O")}
RunnableIds == {n.id : n \in NodesOfKind("R")}
ExportIds == {n.id : n \in NodesOfKind("E")}

NodeById(id) == CHOOSE n \in Range(nodes) : n.id = id

\* Task.name: the first line of the bracket content, not substituted
TaskName(id) == NodeById(id).content

\* Input.filename / Output.filename / Export.filename
Filename(id) == Replace(NodeById(id).content, BWV000, ProjectName)

\* _parse_runnables, the managed-script branch: Runnable.command
ScriptCommand(command) ==
    LET parts == SplitWs(SubSeq(command, Len(ScriptPrefix) + 1, Len(command)))
        args == [i \in 1..(Len(parts) - 1) |-> Replace(parts[i + 1], BWV000, ProjectName)]
    IN ScriptTag \o parts[1] \o <<":">> \o Join(args, <<":">>)

\* _parse_runnables, the other branch: Runnable.command
PlainCommand(command) == Resolve(command, ProjectName, <<".">>)

\* parts[0] of an empty list: _parse_runnables raises IndexError
ParseFails(decls) ==
    \E i \in 1..Len(decls) :
        /\ Kind(decls[i].id) = "R"
        /\ StartsWith(decls[i].content, ScriptPrefix)
        /\ SplitWs(SubSeq(decls[i].content, Len(ScriptPrefix) + 1, Len(decls[i].content))) = <<>>

\* Runnable.command of a declared Runnable
RunnableCommand(id) ==
    LET command == NodeById(id).content
    IN IF StartsWith(command, ScriptPrefix) THEN ScriptCommand(command)
       ELSE PlainCommand(command)

\* Runnable.script_file: no element for None, else the one file name
ScriptFile(id) ==
    LET command == NodeById(id).content
        actual == PlainCommand(command)
        parts == SplitWs(actual)
    IN IF StartsWith(command, ScriptPrefix)
       THEN <<SplitWs(SubSeq(command, Len(ScriptPrefix) + 1, Len(command)))[1]>>
       ELSE IF StartsWith(actual, Python3) /\ Len(parts) >= 2 /\ EndsWith(parts[2], DotPy)
            THEN <<parts[2]>>
            ELSE <<>>

(***************************************************************************)
(* topological_sort_tasks                                                  *)
(***************************************************************************)
EdgeIdx == 1..Len(edges)
From(i) == edges[i][1]
To(i) == edges[i][2]

\* the four nested scans of the edge list that fill dependencies[task_id]
DependenciesOf(task_id) ==
    Flat([i \in EdgeIdx |->
      IF To(i) = task_id
      THEN Flat([j \in EdgeIdx |->
        IF From(j) \in TaskIds
        THEN Flat([k \in EdgeIdx |->
          IF From(k) \in RunnableIds /\ To(k) = From(i)
          THEN Flat([l \in EdgeIdx |->
            IF To(l) = From(k) /\ From(l) = From(j)
            THEN IF From(j) # task_id THEN <<From(j)>> ELSE <<>>
            ELSE <<>>])
          ELSE <<>>])
        ELSE <<>>])
      ELSE <<>>])

\* queue.sort(): insertion into an ascending list
RECURSIVE Insert(_, _)
Insert(x, s) ==
    IF s = <<>> THEN <<x>>
    ELSE IF StrLess(x, Head(s)) THEN <<x>> \o s
    ELSE <<Head(s)>> \o Insert(x, Tail(s))

\* a scheduler that pops the queue in arrival order
SortQueueNone(q) == q

RECURSIVE SortQueue(_)
SortQueue(q) == IF q = <<>> THEN <<>> ELSE Insert(Head(q), SortQueue(Tail(q)))

(***************************************************************************)
(* analyze_task_dependencies, get_task_info                                *)
(***************************************************************************)
\* inputs: Input/Output -> Task, only the Input branch
AnalyzeInputsNoOutputs(task_id) ==
    Flat([i \in EdgeIdx |->
      IF To(i) = task_id /\ From(i) \in InputIds THEN <<Filename(From(i))>> ELSE <<>>])

\* inputs: Input/Output -> Task
AnalyzeInputs(task_id) ==
    Flat([i \in EdgeIdx |->
      IF To(i) = task_id
      THEN IF From(i) \in InputIds THEN <<Filename(From(i))>>
           ELSE IF From(i) \in OutputIds THEN <<Filename(From(i))>>
           ELSE <<>>
      ELSE <<>>])

\* the edges Task -> Runnable, in edge order
RunnableEdges(task_id) ==
    SelectSeq([i \in EdgeIdx |-> i],
              LAMBDA i : From(i) = task_id /\ To(i) \in RunnableIds)

\* runnable_cmd: every Task -> Runnable edge overwrites it
AnalyzeCommand(task_id) ==
    LET hits == RunnableEdges(task_id)
    IN IF hits = <<>> THEN <<>> ELSE RunnableCommand(To(hits[Len(hits)]))

\* dependencies: the script file of every Runnable the task points to
AnalyzeScripts(task_id) ==
    LET hits == RunnableEdges(task_id)
    IN Flat([h \in 1..Len(hits) |-> ScriptFile(To(hits[h]))])

\* outputs: Runnable -> Output/Export, only the Output branch
AnalyzeOutputsNoExports(task_id) ==
    LET hits == RunnableEdges(task_id)
    IN IF hits = <<>> THEN <<>>
       ELSE Flat([i \in EdgeIdx |->
              IF From(i) = To(hits[1]) /\ To(i) \in OutputIds
              THEN <<Filename(To(i))>> ELSE <<>>])

\* outputs: Runnable -> Output/Export of the first Runnable the task points to
AnalyzeOutputs(task_id) ==
    LET hits == RunnableEdges(task_id)
    IN IF hits = <<>> THEN <<>>
       ELSE Flat([i \in EdgeIdx |->
              IF From(i) = To(hits[1])
              THEN IF To(i) \in OutputIds THEN <<Filename(To(i))>>
                   ELSE IF To(i) \in ExportIds THEN <<Filename(To(i))>>
                   ELSE <<>>
              ELSE <<>>])

\* pipeline.tasks.items(): the Task declarations in text order
TaskNodes == SelectSeq(nodes, LAMBDA n : Kind(n.id) = "T")

\* get_task_info: the first task carrying the name, no element for None
FindTask(task_name) ==
    LET hits == SelectSeq(TaskNodes, LAMBDA n : n.content = task_name)
    IN IF hits = <<>> THEN <<>> ELSE <<hits[1].id>>

\* source_paths = [Path(f) for f in inputs + dependencies]
SourcePaths(task_id) ==
    LET files == AnalyzeInputs(task_id) \o AnalyzeScripts(task_id)
    IN [i \in 1..Len(files) |-> PathOf(files[i])]

(***************************************************************************)
(* The listener's view (tasks_mermaid_utils.py): nodes, edges, generation  *)
(***************************************************************************)
\* get_node_by_id: the first node with the id, no element for None
GetNodeById(node_id) ==
    LET hits == SelectSeq(nodes, LAMBDA n : n.id = node_id)
    IN IF hits = <<>> THEN <<>> ELSE <<hits[1]>>

\* the content of the node with the id, nothing when there is none
ContentOf(node_id) ==
    IF GetNodeById(node_id) = <<>> THEN <<>> ELSE <<GetNodeById(node_id)[1].content>>

\* trace_task_dependencies, method 1: direct task dependencies (T -> T)
DirectDependencies(task_id) ==
    Flat([i \in EdgeIdx |->
      IF To(i) = task_id /\ Kind(From(i)) = "T" THEN ContentOf(From(i)) ELSE <<>>])

\* trace_task_dependencies, method 2: dependencies through outputs
OutputDependencies(task_id) ==
    Flat([i \in EdgeIdx |->
      IF To(i) = task_id /\ Kind(From(i)) = "O"
      THEN Flat([k \in EdgeIdx |->
        IF To(k) = From(i) /\ Kind(From(k)) = "R"
        THEN Flat([l \in EdgeIdx |->
          IF To(l) = From(k) /\ Kind(From(l)) = "T" THEN ContentOf(From(l)) ELSE <<>>])
        ELSE <<>>])
      ELSE <<>>])

\* a tracer that forgets method 1
TracedNamesOutputsOnly(task_id) == Range(OutputDependencies(task_id))

\* set(dependencies): the names found by either method
TracedNames(task_id) ==
    Range(DirectDependencies(task_id) \o OutputDependencies(task_id))

\* list(set(dependencies)): the names in the iteration order of a set of str,
\* which differs from one interpreter run to the next
TraceTaskDependencies(task_id) == Perms(TracedNames(task_id))

\* get_nodes_by_type(listener.nodes, 'T')
TaskNodesOfListener == SelectSeq(nodes, LAMBDA n : Kind(n.id) = "T")

\* get_task_sources: the Path(...) entries of the sources expression, each
\* an f-string or a plain string, and whether shared_ly_sources() is added
GetTaskSources(task_id) ==
    LET path_sources ==
          Flat([i \in EdgeIdx |->
            IF To(i) = task_id /\ Kind(From(i)) = "I" /\ ContentOf(From(i)) # <<>>
            THEN LET filename == ContentOf(From(i))[1]
                 IN <<[fstring |-> Contains(filename, BWV000),
                       text |-> Replace(filename, BWV000, ProjectToken)]>>
            ELSE <<>>])
    IN [paths |-> path_sources,
        shared |-> \E k \in 1..Len(path_sources) : Contains(path_sources[k].text, DotLy)]

\* the edges from the task to an id that starts with R, in edge order
RunnableRefs(task_id) ==
    SelectSeq([i \in EdgeIdx |-> i], LAMBDA i : From(i) = task_id /\ Kind(To(i)) = "R")

\* get_task_targets: the f-strings of the targets list
GetTaskTargets(task_id) ==
    LET refs == RunnableRefs(task_id)
    IN IF refs = <<>> THEN <<>>
       ELSE Flat([i \in EdgeIdx |->
              IF From(i) = To(refs[1]) /\ Kind(To(i)) = "O" /\ ContentOf(To(i)) # <<>>
              THEN <<Replace(ContentOf(To(i))[1], BWV000, ProjectToken)>>
              ELSE <<>>])

NoCall == [script |-> <<>>, args |-> <<>>]

\* get_task_command, for the content of one Runnable node: the f-string of a
\* container command, the run_bwv_script call of a managed script, or nothing
CommandOf(command) ==
    IF Contains(Lower(command), DockerWord) /\ Contains(Lower(command), RunWord)
    THEN <<[kind |-> "shell",
            text |-> Replace(Replace(command, BWV000, ProjectToken), PWD, CwdToken),
            call |-> NoCall]>>
    ELSE IF StartsWith(command, ScriptPrefix)
         THEN LET parts == SplitWs(command)
              IN <<[kind |-> "script",
                    text |-> <<>>,
                    call |-> [script |-> Replace(parts[1], ScriptPrefix, <<>>),
                              args |-> [k \in 1..(Len(parts) - 1) |->
                                          Replace(parts[k + 1], BWV000, ProjectToken)]]]>>
         ELSE <<>>

\* get_task_command: the first Runnable of the task that gives a command, no
\* element for None
GetTaskCommand(task_id) ==
    LET refs == RunnableRefs(task_id)
        found == Flat([h \in 1..Len(refs) |->
                   IF ContentOf(To(refs[h])) = <<>> THEN <<>>
                   ELSE CommandOf(ContentOf(To(refs[h]))[1])])
    IN IF found = <<>> THEN <<>> ELSE <<found[1]>>

NoSources == [paths |-> <<>>, shared |-> FALSE]

\* a generator that wraps every task in smart_task
TaskBodyAlwaysSmart(command, sources, targets) ==
    [kind |-> "smart_task", sources |-> sources, targets |-> targets, commands |-> command]

\* generate_tasks_file, "Handle commands": the body of the definition
TaskBody(command, sources, targets) ==
    IF command # <<>>
    THEN IF command[1].kind = "script"
         THEN [kind |-> "script", sources |-> NoSources, targets |-> <<>>, commands |-> command]
         ELSE [kind |-> "smart_task", sources |-> sources, targets |-> targets,
               commands |-> command]
    ELSE [kind |-> "stub", sources |-> NoSources, targets |-> <<>>, commands |-> <<>>]

\* generate_tasks_file: the definitions one Task node can give rise to
TaskDefinitions(task_node) ==
    {[name |-> task_node.content, pre |-> deps,
      body |-> TaskBody(GetTaskCommand(task_node.id), GetTaskSources(task_node.id),
                        GetTaskTargets(task_node.id))] :
        deps \in TraceTaskDependencies(task_node.id)}

\* generate_tasks_file: the texts it can return, each the list of the
\* definitions it holds from top to bottom
RECURSIVE DefinitionsFrom(_)
DefinitionsFrom(k) ==
    IF k > Len(TaskNodesOfListener) THEN {<<>>}
    ELSE {<<d>> \o rest : d \in TaskDefinitions(TaskNodesOfListener[k]),
                          rest \in DefinitionsFrom(k + 1)}

GenerateTasksFile == DefinitionsFrom(1)

\* the first element of a list, nothing for an empty list
First(s) == IF s = <<>> THEN <<>> ELSE <<s[1]>>

\* get_final_tasks_from_listener, for one Export node: the first edge into it
\* from an id that starts with R, then the first edge into that id from an id
\* that starts with T, then the node of that id
FinalTaskOf(export_id) ==
    LET producing_runnable ==
          First(SelectSeq([i \in EdgeIdx |-> i],
                          LAMBDA i : To(i) = export_id /\ Kind(From(i)) = "R"))
    IN IF producing_runnable = <<>> THEN <<>>
       ELSE LET task ==
                  First(SelectSeq([i \in EdgeIdx |-> i],
                                  LAMBDA i : /\ To(i) = From(producing_runnable[1])
                                             /\ Kind(From(i)) = "T"))
            IN IF task = <<>> THEN <<>> ELSE ContentOf(From(task[1]))

\* set(final_tasks)
FinalTaskNames ==
    LET export_nodes == SelectSeq(nodes, LAMBDA n : Kind(n.id) = "E")
    IN Range(Flat([k \in 1..Len(export_nodes) |-> FinalTaskOf(export_nodes[k].id)]))

\* list(set(final_tasks)): in the iteration order of a set of str
GetFinalTasksFromListener == Perms(FinalTaskNames)

(***************************************************************************)
(* Actions                                                                 *)
(***************************************************************************)
NoMap == <<>>

\* what the output file holds before the invocation
Previous == <<"previous">>

\* nothing written, nothing run
NoRun ==
    /\ output_file = Previous
    /\ writes = 0
    /\ executed = <<>>
    /\ reported = "nothing"

\* no managed script handed in
NoScript ==
    /\ runnable_text = <<>>
    /\ encoded = <<>>
    /\ decoded = NoMap

\* no MIDI file handed in
NoMidi ==
    /\ messages = <<>>
    /\ current_tick = 0
    /\ note_stack = NoMap
    /\ note_events = <<>>
    /\ max_tick = 0

Init ==
    /\ pc = "start"
    /\ diagram \in DOMAIN Diagrams
    /\ nodes = <<>>
    /\ edges = <<>>
    /\ cursor = 0
    /\ dependencies = NoMap
    /\ in_degree = NoMap
    /\ queue = <<>>
    /\ result = <<>>
    /\ task_names = <<>>
    /\ analysis = NoMap
    /\ traced = NoMap
    /\ generated = NoMap
    /\ regenerated = NoMap
    /\ final_tasks = NoMap
    /\ text = <<>>
    /\ project = ProjectName
    /\ cwd = <<".">>
    /\ once = <<>>
    /\ twice = <<>>
    /\ NoRun
    /\ NoScript
    /\ NoMidi

\* parse_file: the five node scans; an exception of a scan leaves parse_file
ParseNodes ==
    /\ pc = "start"
    /\ IF ~Exists(diagram)
       THEN nodes' = <<>> /\ pc' = MissingFileOutcome(diagram)
       ELSE IF ParseFails(Diagrams[diagram].decls)
            THEN nodes' = <<>> /\ pc' = "failed"
            ELSE nodes' = Diagrams[diagram].decls /\ pc' = "edges"
    /\ UNCHANGED <<diagram, edges, cursor, dependencies, in_degree, queue, result,
                   task_names, analysis, traced, generated, regenerated,
                   final_tasks, resolveVars,
                   runVars, scriptVars, midiVars>>

\* _parse_edges: one match of the edge pattern, further down the text
ParseEdge ==
    /\ pc = "edges"
    /\ Len(edges) < MaxEdges
    /\ \E i \in (cursor + 1)..Len(Diagrams[diagram].lines) :
          /\ edges' = Append(edges, Diagrams[diagram].lines[i])
          /\ cursor' = i
    /\ UNCHANGED <<pc, diagram, nodes, dependencies, in_degree, queue, result,
                   task_names, analysis, traced, generated, regenerated,
                   final_tasks, resolveVars,
                   runVars, scriptVars, midiVars>>

\* a scheduler that starts with every task in its queue
EligibleAll(degree) == TaskIds

\* the tasks the queue starts with: those with no dependency
Eligible(degree) == {t \in TaskIds : degree[t] = 0}

\* topological_sort_tasks up to the first test of the while loop; all_tasks is
\* a set, so the comprehension that fills the queue lists it in any order
StartSort ==
    /\ pc = "edges"
    /\ dependencies' = [t \in TaskIds |-> DependenciesOf(t)]
    /\ in_degree' = [t \in TaskIds |-> Len(dependencies'[t])]
    /\ \E order \in Perms(Eligible(in_degree')) : queue' = order
    /\ result' = <<>>
    /\ pc' = "kahn"
    /\ UNCHANGED <<diagram, nodes, edges, cursor, task_names, analysis, traced,
                   generated, regenerated,
                   final_tasks, resolveVars,
                   runVars, scriptVars, midiVars>>

\* one iteration of the while loop: sort, pop the head, release the tasks that
\* waited for it (in the iteration order of all_tasks)
KahnStep ==
    /\ pc = "kahn"
    /\ queue # <<>>
    /\ LET sorted == SortQueue(queue)
           current == Head(sorted)
           degree == [t \in TaskIds |->
                        IF current \in Range(dependencies[t])
                        THEN in_degree[t] - 1 ELSE in_degree[t]]
           freed == {t \in TaskIds : current \in Range(dependencies[t]) /\ degree[t] = 0}
       IN /\ result' = Append(result, current)
          /\ in_degree' = degree
          /\ \E order \in Perms(freed) : queue' = Tail(sorted) \o order
    /\ UNCHANGED <<pc, diagram, nodes, edges, cursor, dependencies, task_names,
                   analysis, traced, generated, regenerated,
                   final_tasks, resolveVars,
                   runVars, scriptVars, midiVars>>

\* a loop that never leaves
LoopNeverExits(q) == FALSE

\* while queue: the loop is left when the queue is empty
LoopExits(q) == q = <<>>

\* the queue is empty: convert ids to names and return
FinishSort ==
    /\ pc = "kahn"
    /\ LoopExits(queue)
    /\ task_names' = [i \in 1..Len(result) |-> TaskName(result[i])]
    /\ pc' = "sorted"
    /\ UNCHANGED <<diagram, nodes, edges, cursor, dependencies, in_degree, queue,
                   result, analysis, traced, generated, regenerated,
                   final_tasks, resolveVars,
                   runVars, scriptVars, midiVars>>

\* analyze_task_dependencies(pipeline, task_id), as analyze_pipeline calls it
Analyze ==
    /\ pc = "edges"
    /\ \E t \in TaskIds :
          analysis' = [task_id |-> t,
                       inputs |-> AnalyzeInputs(t),
                       outputs |-> AnalyzeOutputs(t),
                       runnable_cmd |-> AnalyzeCommand(t),
                       dependencies |-> AnalyzeScripts(t)]
    /\ pc' = "analyzed"
    /\ UNCHANGED <<diagram, nodes, edges, cursor, dependencies, in_degree, queue,
                   result, task_names, traced, generated, regenerated,
                   final_tasks, resolveVars,
                   runVars, scriptVars, midiVars>>

\* the names get_task_info is asked for: those of the diagram and a stranger
AskedNames == {TaskName(t) : t \in TaskIds} \cup {<<"n", "o">>}

\* get_task_info(project, task_name)
GetTaskInfo ==
    /\ pc = "edges"
    /\ \E task_name \in AskedNames :
          LET found == FindTask(task_name)
          IN analysis' =
               IF found = <<>>
               THEN [task_name |-> task_name, found |-> FALSE]
               ELSE [task_name |-> task_name, found |-> TRUE, task_id |-> found[1],
                     source_paths |-> SourcePaths(found[1]),
                     outputs |-> AnalyzeOutputs(found[1]),
                     commands |-> IF AnalyzeCommand(found[1]) # <<>>
                                  THEN <<AnalyzeCommand(found[1])>> ELSE <<>>]
    /\ pc' = "info"
    /\ UNCHANGED <<diagram, nodes, edges, cursor, dependencies, in_degree, queue,
                   result, task_names, traced, generated, regenerated,
                   final_tasks, resolveVars,
                   runVars, scriptVars, midiVars>>

\* trace_task_dependencies(task_id, edges, nodes) for a Task node
TraceDependencies ==
    /\ pc = "edges"
    /\ \E n \in Range(TaskNodesOfListener) :
          \E deps \in TraceTaskDependencies(n.id) :
              traced' = [task_id |-> n.id, deps |-> deps]
    /\ pc' = "traced"
    /\ UNCHANGED <<diagram, nodes, edges, cursor, dependencies, in_degree, queue,
                   result, task_names, analysis, generated, regenerated,
                   final_tasks, resolveVars,
                   runVars, scriptVars, midiVars>>

\* generate_tasks_file(listener), reached when the diagram file exists
Generate ==
    /\ pc = "edges"
    /\ Exists(diagram)
    /\ generated' \in GenerateTasksFile
    /\ pc' = "generated"
    /\ UNCHANGED <<diagram, nodes, edges, cursor, dependencies, in_degree, queue,
                   result, task_names, analysis, traced, regenerated,
                   final_tasks, resolveVars,
                   runVars, scriptVars, midiVars>>

\* generate_tasks_file(listener) on the same diagram, in a second run
Regenerate ==
    /\ pc = "generated"
    /\ regenerated' \in GenerateTasksFile
    /\ pc' = "regenerated"
    /\ UNCHANGED <<diagram, nodes, edges, cursor, dependencies, in_degree, queue,
                   result, task_names, analysis, traced, generated,
                   final_tasks, resolveVars,
                   runVars, scriptVars, midiVars>>

\* generate_all_task(listener): the task calls of the 'all' definition
GenerateAll ==
    /\ pc = "edges"
    /\ Exists(diagram)
    /\ final_tasks' \in GetFinalTasksFromListener
    /\ pc' = "all"
    /\ UNCHANGED <<diagram, nodes, edges, cursor, dependencies, in_degree, queue,
                   result, task_names, analysis, traced, generated, regenerated,
                   resolveVars,
                   runVars, scriptVars, midiVars>>

\* a failed run that cuts the output file short
FileTruncated(content) == <<>>

\* the output file after a run that returned before write_text
FileAfterFailure(content) == content

\* parse_and_display_mermaid / generate_meta_tasks: the file is missing, or
\* an exception leaves the try block; nothing is written
GenerationFails ==
    /\ pc = "edges"
    /\ pc' = "not_generated"
    /\ output_file' = FileAfterFailure(output_file)
    /\ UNCHANGED <<diagram, nodes, edges, cursor, dependencies, in_degree, queue,
                   result, task_names, analysis, traced, generated, regenerated,
                   final_tasks, resolveVars, writes, executed, reported,
                   scriptVars, midiVars>>

\* parse_and_display_mermaid(generate_tasks=True): tasks_file.write_text
WriteTasksFile ==
    /\ pc = "generated"
    /\ output_file' = generated
    /\ writes' = writes + 1
    /\ pc' = "written"
    /\ UNCHANGED <<diagram, nodes, edges, cursor, dependencies, in_degree, queue,
                   result, task_names, analysis, traced, generated, regenerated,
                   final_tasks, resolveVars, executed, reported, scriptVars,
                   midiVars>>

\* generate_meta_tasks: the text put together from the meta tasks
MetaTasks(final) ==
    [all |-> final,
     info |-> [k \in 1..Len(TaskNodesOfListener) |-> TaskNodesOfListener[k].content]]

\* main of the generator: output_path.write_text(meta_tasks_content)
WriteMetaTasks ==
    /\ pc = "all"
    /\ output_file' = MetaTasks(final_tasks)
    /\ writes' = writes + 1
    /\ pc' = "meta_written"
    /\ UNCHANGED <<diagram, nodes, edges, cursor, dependencies, in_degree, queue,
                   result, task_names, analysis, traced, generated, regenerated,
                   final_tasks, resolveVars, executed, reported, scriptVars,
                   midiVars>>

\* _run_single_mermaid_task: cmd.split(':', 2) and parts[2].split(':')
Decode(cmd) ==
    LET rest == SubSeq(cmd, Len(ScriptTag) + 1, Len(cmd))
    IN IF \A i \in 1..Len(rest) : rest[i] # ":"
       THEN [script |-> rest, args |-> <<>>]
       ELSE LET k == CHOOSE i \in 1..Len(rest) :
                        rest[i] = ":" /\ \A j \in 1..(i - 1) : rest[j] # ":"
                tail == SubSeq(rest, k + 1, Len(rest))
            IN [script |-> SubSeq(rest, 1, k - 1),
                args |-> IF tail = <<>> THEN <<>> ELSE SplitOn(tail, ":")]

\* _run_single_mermaid_task: what is run for one command
RunCommand(cmd) ==
    IF StartsWith(cmd, ScriptTag)
    THEN [kind |-> "script", text |-> <<>>, call |-> Decode(cmd)]
    ELSE [kind |-> "shell", text |-> cmd, call |-> NoCall]

\* _run_single_mermaid_task(c, task_name): what is run for one task
RunSingleMermaidTask(task_name) ==
    LET found == FindTask(task_name)
    IN IF found = <<>> \/ AnalyzeCommand(found[1]) = <<>> THEN <<>>
       ELSE <<RunCommand(AnalyzeCommand(found[1]))>>

\* mermaid_run(c, 'all') after get_task_execution_order returned
MermaidRun ==
    /\ pc = "sorted"
    /\ IF task_names = <<>>
       THEN /\ reported' = "no_tasks"
            /\ executed' = <<>>
       ELSE /\ reported' = "completed"
            /\ executed' = Flat([k \in 1..Len(task_names) |->
                                  RunSingleMermaidTask(task_names[k])])
    /\ pc' = "ran"
    /\ UNCHANGED <<diagram, nodes, edges, cursor, dependencies, in_degree, queue,
                   result, task_names, analysis, traced, generated, regenerated,
                   final_tasks, resolveVars, output_file, writes, scriptVars,
                   midiVars>>

Next ==
    \/ ParseNodes
    \/ ParseEdge
    \/ StartSort
    \/ KahnStep
    \/ FinishSort
    \/ Analyze
    \/ GetTaskInfo
    \/ TraceDependencies
    \/ Generate
    \/ Regenerate
    \/ GenerateAll
    \/ GenerationFails
    \/ WriteTasksFile
    \/ WriteMetaTasks
    \/ MermaidRun

Spec == Init /\ [][Next]_vars

\* get_task_execution_order on its own: parse, then sort; the sort is
\* sequential code, so an iteration that can be taken is taken
NextSort ==
    \/ ParseNodes
    \/ ParseEdge
    \/ StartSort
    \/ KahnStep
    \/ FinishSort

\* the diagrams the sort is followed to its end on: those of at most
\* MaxLines edge statements
InitSort ==
    /\ Init
    /\ Len(Diagrams[diagram].lines) <= MaxLines

SpecSort == InitSort /\ [][NextSort]_vars /\ WF_vars(KahnStep) /\ WF_vars(FinishSort)

(***************************************************************************)
(* The placeholder substitution on its own                                 *)
(***************************************************************************)
\* the pieces a text is put together from
MaxPieces == 3

Pieces ==
    {BWV000, PWD, <<"B", "W", "V">>, <<"0", "0", "0">>, <<"P">>, <<"W", "D">>, <<"a">>}

RECURSIVE TextsOf(_)
TextsOf(n) ==
    IF n = 0 THEN {<<>>}
    ELSE TextsOf(n - 1) \cup {piece \o rest : piece \in Pieces, rest \in TextsOf(n - 1)}

\* names a project directory can carry
ProjectNames ==
    {ProjectName, BWV000, PWD, BWV000 \o <<"x">>, <<"0", "0", "0">>, <<"W", "D">>}

\* '.' in the parser, the working directory in the generated module
CwdValues == {<<".">>, <<"/", "w">>, <<"/">> \o PWD}

InitResolve ==
    /\ pc = "resolve"
    /\ diagram = 1
    /\ nodes = <<>>
    /\ edges = <<>>
    /\ cursor = 0
    /\ dependencies = NoMap
    /\ in_degree = NoMap
    /\ queue = <<>>
    /\ result = <<>>
    /\ task_names = <<>>
    /\ analysis = NoMap
    /\ traced = NoMap
    /\ generated = NoMap
    /\ regenerated = NoMap
    /\ final_tasks = NoMap
    /\ text \in TextsOf(MaxPieces)
    /\ project \in ProjectNames
    /\ cwd \in CwdValues
    /\ once = <<>>
    /\ twice = <<>>
    /\ NoRun
    /\ NoScript
    /\ NoMidi

\* command.replace('BWV000', p).replace('PWD', d)
ResolveOnce ==
    /\ pc = "resolve"
    /\ once' = Resolve(text, project, cwd)
    /\ pc' = "resolved"
    /\ UNCHANGED <<diagram, nodes, edges, cursor, dependencies, in_degree, queue,
                   result, task_names, analysis, traced, generated, regenerated,
                   final_tasks, text, project, cwd, twice,
                   runVars, scriptVars, midiVars>>

\* the same substitution applied to its own result
ResolveTwice ==
    /\ pc = "resolved"
    /\ twice' = Resolve(once, project, cwd)
    /\ pc' = "resolved_twice"
    /\ UNCHANGED <<diagram, nodes, edges, cursor, dependencies, in_degree, queue,
                   result, task_names, analysis, traced, generated, regenerated,
                   final_tasks, text, project, cwd, once,
                   runVars, scriptVars, midiVars>>

NextResolve ==
    \/ ResolveOnce
    \/ ResolveTwice

SpecResolve == InitResolve /\ [][NextResolve]_vars

(***************************************************************************)
(* The managed-script encoding, on its own                                 *)
(***************************************************************************)
\* script names a Runnable node is written with
ScriptNames == {<<"x", ".", "p", "y">>, <<"y", ".", "p", "y">>}

\* arguments a Runnable node is written with
ScriptArguments == {<<"a">>, <<"a", ":", "b">>, BWV000, <<"-", "v">>}

RECURSIVE ArgumentLists(_)
ArgumentLists(n) ==
    IF n = 0 THEN {<<>>}
    ELSE ArgumentLists(n - 1)
         \cup {<<a>> \o rest : a \in ScriptArguments, rest \in ArgumentLists(n - 1)}

\* the first line of a Runnable node: bwv_script:script arg1 arg2
RunnableText(script, args) == ScriptPrefix \o Join(<<script>> \o args, <<" ">>)

InitScript ==
    /\ pc = "runnable"
    /\ diagram = 1
    /\ nodes = <<>>
    /\ edges = <<>>
    /\ cursor = 0
    /\ dependencies = NoMap
    /\ in_degree = NoMap
    /\ queue = <<>>
    /\ result = <<>>
    /\ task_names = <<>>
    /\ analysis = NoMap
    /\ traced = NoMap
    /\ generated = NoMap
    /\ regenerated = NoMap
    /\ final_tasks = NoMap
    /\ text = <<>>
    /\ project = ProjectName
    /\ cwd = <<".">>
    /\ once = <<>>
    /\ twice = <<>>
    /\ NoRun
    /\ \E script \in ScriptNames : \E args \in ArgumentLists(MaxArgs) :
          runnable_text = RunnableText(script, args)
    /\ encoded = <<>>
    /\ decoded = NoMap
    /\ NoMidi

\* _parse_runnables, the bwv_script: branch
Encode ==
    /\ pc = "runnable"
    /\ encoded' = ScriptCommand(runnable_text)
    /\ pc' = "encoded"
    /\ UNCHANGED <<diagram, nodes, edges, cursor, dependencies, in_degree, queue,
                   result, task_names, analysis, traced, generated, regenerated,
                   final_tasks, resolveVars, runVars, runnable_text, decoded,
                   midiVars>>

\* _run_single_mermaid_task, the BWV_SCRIPT: branch
DecodeRun ==
    /\ pc = "encoded"
    /\ decoded' = RunCommand(encoded).call
    /\ pc' = "decoded"
    /\ UNCHANGED <<diagram, nodes, edges, cursor, dependencies, in_degree, queue,
                   result, task_names, analysis, traced, generated, regenerated,
                   final_tasks, resolveVars, runVars, runnable_text, encoded,
                   midiVars>>

NextScript ==
    \/ Encode
    \/ DecodeRun

SpecScript == InitScript /\ [][NextScript]_vars

(***************************************************************************)
(* extract_note_intervals, on its own                                      *)
(***************************************************************************)
Pitches == {60, 62}
Channels == {0, 1}
Velocities == {0, 64}
MessageTypes == {"note_on", "note_off"}

\* the note messages of a MIDI file, one tick apart
Messages ==
    [type : MessageTypes, note : Pitches, velocity : Velocities,
     channel : Channels, time : {1}]

RECURSIVE MessageLists(_)
MessageLists(n) ==
    IF n = 0 THEN {<<>>}
    ELSE MessageLists(n - 1)
         \cup {<<m>> \o rest : m \in Messages, rest \in MessageLists(n - 1)}

InitMidi ==
    /\ pc = "midi"
    /\ diagram = 1
    /\ nodes = <<>>
    /\ edges = <<>>
    /\ cursor = 0
    /\ dependencies = NoMap
    /\ in_degree = NoMap
    /\ queue = <<>>
    /\ result = <<>>
    /\ task_names = <<>>
    /\ analysis = NoMap
    /\ traced = NoMap
    /\ generated = NoMap
    /\ regenerated = NoMap
    /\ final_tasks = NoMap
    /\ text = <<>>
    /\ project = ProjectName
    /\ cwd = <<".">>
    /\ once = <<>>
    /\ twice = <<>>
    /\ NoRun
    /\ NoScript
    /\ messages \in MessageLists(MaxMessages)
    /\ current_tick = 0
    /\ note_stack = NoMap
    /\ note_events = <<>>
    /\ max_tick = 0

\* note_stack.get(note): the pending notes of a pitch, none for a missing key
Pending(stack, note) == IF note \in DOMAIN stack THEN stack[note] ELSE <<>>

\* message.type == 'note_on' and message.velocity > 0
IsNoteStart(message) == message.type = "note_on" /\ message.velocity > 0

\* message.type in ('note_off', 'note_on') and message.velocity == 0
IsNoteEnd(message) ==
    /\ message.type \in {"note_off", "note_on"}
    /\ message.velocity = 0

\* one iteration of the loop over the messages of the file
ProcessMessage ==
    /\ pc = "midi"
    /\ messages # <<>>
    /\ LET message == Head(messages)
           tick == current_tick + message.time
           pending == Pending(note_stack, message.note)
       IN /\ current_tick' = tick
          /\ max_tick' = IF tick > max_tick THEN tick ELSE max_tick
          /\ IF IsNoteStart(message)
             THEN /\ note_stack' =
                        (message.note :>
                            Append(pending, [start_tick |-> tick,
                                             channel |-> message.channel]))
                        @@ note_stack
                  /\ note_events' = note_events
             ELSE IF IsNoteEnd(message) /\ pending # <<>>
                  THEN /\ note_stack' = (message.note :> Tail(pending)) @@ note_stack
                       /\ note_events' =
                             Append(note_events,
                                    [midi |-> message.note,
                                     on_tick |-> Head(pending).start_tick,
                                     off_tick |-> tick,
                                     channel |-> Head(pending).channel])
                  ELSE /\ note_stack' = note_stack
                       /\ note_events' = note_events
    /\ messages' = Tail(messages)
    /\ UNCHANGED <<pc, diagram, nodes, edges, cursor, dependencies, in_degree,
                   queue, result, task_names, analysis, traced, generated,
                   regenerated, final_tasks, resolveVars, runVars, scriptVars>>

\* the loop is over
FinishMidi ==
    /\ pc = "midi"
    /\ messages = <<>>
    /\ pc' = "extracted"
    /\ UNCHANGED <<diagram, nodes, edges, cursor, dependencies, in_degree,
                   queue, result, task_names, analysis, traced, generated,
                   regenerated, final_tasks, resolveVars, runVars, scriptVars,
                   midiVars>>

NextMidi ==
    \/ ProcessMessage
    \/ FinishMidi

SpecMidi == InitMidi /\ [][NextMidi]_vars

(***************************************************************************)
(* The dependency relation the scheduler contract speaks of, stated on the *)
(* edge set                                                                *)
(***************************************************************************)
EdgeSet == Range(edges)

\* a direct edge between two nodes
DirectEdge(a, b) == <<a, b>> \in EdgeSet

\* tp -> r -> o -> t with r a declared Runnable and o in the set Files
ProducesFor(tp, t, Files) ==
    \E r \in RunnableIds : \E o \in Files :
        /\ <<tp, r>> \in EdgeSet
        /\ <<r, o>> \in EdgeSet
        /\ <<o, t>> \in EdgeSet

FileIds == InputIds \cup OutputIds \cup ExportIds
AnyIds == {e[1] : e \in EdgeSet} \cup {e[2] : e \in EdgeSet}

\* t depends on tp, by either form
DependsOn(tp, t) == DirectEdge(tp, t) \/ ProducesFor(tp, t, AnyIds)

RECURSIVE ReachIn(_, _, _)
ReachIn(a, b, n) ==
    /\ n > 0
    /\ \/ DependsOn(a, b)
       \/ \E c \in TaskIds : DependsOn(a, c) /\ ReachIn(c, b, n - 1)

OnCycle(t) == ReachIn(t, t, Cardinality(TaskIds))
Acyclic == \A t \in TaskIds : ~OnCycle(t)

Position(t) == CHOOSE i \in 1..Len(result) : result[i] = t
Emitted(t) == t \in Range(result)
Before(tp, t) == Emitted(tp) /\ Emitted(t) /\ Position(tp) < Position(t)

(***************************************************************************)
(* Claims                                                                  *)
(***************************************************************************)

\* C1: for an acyclic dependency relation the returned list holds every Task
\* node exactly once (as stated; the code drops a task whose dependency is
\* found more than once by the nested edge scans).
C1_TotalOrder ==
    (pc = "sorted" /\ Acyclic) =>
        /\ Len(task_names) = Cardinality(TaskIds)
        /\ \A t \in TaskIds :
              /\ Cardinality({i \in 1..Len(result) : result[i] = t}) = 1
              /\ task_names[Position(t)] = TaskName(t)

\* C2: whenever a task t consuming a file produced by task tp (through tp's
\* Runnable) is in the order, tp stands before it, at every moment of the
\* loop and in the returned names; in the two-task scenario the name of T1
\* precedes the name of T2.
C2_TwoTaskScenario ==
    /\ Len(edges) = 5
    /\ EdgeSet = {<<T1, R1>>, <<R1, O1>>, <<O1, T2>>, <<T2, R2>>, <<R2, E1>>}

C2_ProducerFirst ==
    /\ \A tp, t \in TaskIds :
          (Emitted(t) /\ tp # t /\ ProducesFor(tp, t, FileIds)) => Before(tp, t)
    /\ pc = "sorted" =>
          /\ Len(task_names) = Len(result)
          /\ \A i \in 1..Len(result) : task_names[i] = TaskName(result[i])
    /\ (pc = "sorted" /\ C2_TwoTaskScenario /\ {T1, T2, R1, R2} \subseteq TaskIds \cup RunnableIds) =>
          \E i, j \in 1..Len(task_names) :
              i < j /\ task_names[i] = BuildPdf /\ task_names[j] = MakeSvg

\* C2 witness: the two-task scenario has been scheduled
C2_Witness ==
    /\ pc = "sorted"
    /\ C2_TwoTaskScenario
    /\ {T1, T2, R1, R2} \subseteq TaskIds \cup RunnableIds
    /\ Before(T1, T2)

\* C3: each iteration of the Kahn loop emits the lexicographically smallest
\* of the tasks that have in-degree zero and are not yet emitted, whatever
\* order the set all_tasks was listed in; three independent tasks T1, T2,
\* T10 come out as T1, T10, T2.
LexMin(S) == CHOOSE x \in S : \A y \in S \ {x} : StrLess(x, y)

C3_SmallestFirst ==
    /\ [][result' # result =>
            result' = Append(result,
                LexMin({t \in TaskIds : in_degree[t] = 0 /\ ~Emitted(t)}))]_vars
    /\ []((pc = "sorted" /\ TaskIds = {T1, T2, T10} /\ \A t \in TaskIds : dependencies[t] = <<>>)
            => result = <<T1, T10, T2>>)

\* C3 witness: two tasks wait in the queue out of order and a task was emitted
C3_Witness ==
    /\ pc = "kahn"
    /\ Len(result) >= 1
    /\ Len(queue) >= 2
    /\ SortQueue(queue) # queue

\* C4: with a dependency cycle the scheduler never returns an order that
\* omits the tasks of the cycle (as stated; the code returns and omits them).
C4_CycleNotDropped ==
    pc = "sorted" => \A t \in TaskIds : OnCycle(t) => Emitted(t)

\* C5: for every direct edge between two Task nodes the source task stands
\* before the target task in the returned order (as stated; the code only
\* follows producer/consumer paths).
C5_DirectEdgeOrdered ==
    pc = "sorted" =>
        \A tp, t \in TaskIds :
            (Emitted(t) /\ tp # t /\ DirectEdge(tp, t)) => Before(tp, t)

\* C6: trace_task_dependencies returns, each name once, exactly the names of
\* the declared Task nodes tp with a direct edge (tp, t) or with edges
\* tp -> r, r -> o, o -> t where r is a Runnable id and o an Output id.
IdsOfKind(k) == {id \in AnyIds : Kind(id) = k}

C6_Prerequisite(tp, t) ==
    \/ DirectEdge(tp, t)
    \/ \E r \in IdsOfKind("R") : \E o \in IdsOfKind("O") :
          <<tp, r>> \in EdgeSet /\ <<r, o>> \in EdgeSet /\ <<o, t>> \in EdgeSet

C6_TracedExactly ==
    pc = "traced" =>
        /\ Range(traced.deps) =
              {TaskName(tp) : tp \in {x \in TaskIds : C6_Prerequisite(x, traced.task_id)}}
        /\ \A i, j \in 1..Len(traced.deps) : traced.deps[i] = traced.deps[j] => i = j

\* C6 witness: a task traced to one prerequisite by a direct edge and to
\* another through an Output
C6_Witness ==
    /\ pc = "traced"
    /\ Len(traced.deps) = 2
    /\ \E tp \in TaskIds : DirectEdge(tp, traced.task_id)
    /\ \E tp \in TaskIds : ~DirectEdge(tp, traced.task_id) /\ C6_Prerequisite(tp, traced.task_id)

\* C7: the generated text holds one definition per Task node, and every name
\* in a definition's pre=[...] list is defined further up in the text (as
\* stated; the code emits the definitions in declaration order).
C7_PrerequisitesDefinedEarlier ==
    pc = "generated" =>
        /\ Len(generated) = Cardinality(TaskIds)
        /\ \A t \in TaskIds : \E p \in 1..Len(generated) : generated[p].name = TaskName(t)
        /\ \A p \in 1..Len(generated) : \A name \in Range(generated[p].pre) :
              \E q \in 1..(p - 1) : generated[q].name = name

\* C8: two runs of the generator on the same nodes, edges and project name
\* return the same text (as stated; the order of the names in pre=[...] is
\* the iteration order of a set of strings).
C8_SameTextTwice ==
    pc = "regenerated" => regenerated = generated

\* the values F(i) for the indices i of idx, in increasing order of i
Listed(idx, F(_)) ==
    [k \in 1..Cardinality(idx) |->
        F(CHOOSE i \in idx : Cardinality({j \in idx : j <= i}) = k)]

C9_SourceEdges(t) == {i \in EdgeIdx : To(i) = t /\ From(i) \in InputIds \cup OutputIds}
C9_SourceFile(i) == Filename(From(i))
C9_ScriptEdges(t) ==
    {i \in EdgeIdx : From(i) = t /\ To(i) \in RunnableIds /\ ScriptFile(To(i)) # <<>>}
C9_ScriptOf(i) == ScriptFile(To(i))[1]

C9_Ly == <<"b", "w", "v", "1", "0", "0", "6", ".", "l", "y">>

C10_RunnableEdges(t) == {i \in EdgeIdx : From(i) = t /\ To(i) \in RunnableIds}
C10_First(idx) == CHOOSE i \in idx : \A j \in idx : i <= j
C10_TargetFile(i) == Filename(To(i))

C10_OutputsOfRunnable ==
    pc = "analyzed" =>
        LET mapped == C10_RunnableEdges(analysis.task_id)
        IN IF mapped = {} THEN analysis.outputs = <<>>
           ELSE analysis.outputs =
                  Listed({i \in EdgeIdx : /\ From(i) = To(C10_First(mapped))
                                          /\ To(i) \in OutputIds \cup ExportIds},
                         C10_TargetFile)

\* C10 witness: a task analysed whose Runnable feeds an Output and an Export
C10_Witness ==
    /\ pc = "analyzed"
    /\ Len(analysis.outputs) = 2
    /\ \E i, j \in EdgeIdx :
          /\ <<analysis.task_id, From(i)>> \in EdgeSet
          /\ From(i) = From(j)
          /\ To(i) \in OutputIds
          /\ To(j) \in ExportIds

(***************************************************************************)
(* The generated module at run time: PROJECT_NAME is the project name and  *)
(* Path.cwd() the working directory                                        *)
(***************************************************************************)
\* the value of an f-string of the generated module
EvalF(fstring) == Replace(Replace(fstring, ProjectToken, ProjectName), CwdToken, cwd)

\* the value of one Path(...) entry of a sources expression
EvalPath(entry) == IF entry.fstring THEN EvalF(entry.text) ELSE entry.text

\* the Task node the p-th definition of the generated text was written for
DefinedTask(p) == TaskNodesOfListener[p].id

\* the file name of a node with both placeholders resolved
ResolvedFile(id) == Resolve(NodeById(id).content, ProjectName, <<".">>)

\* the Runnable a task is mapped to: the target of its first edge to a
\* declared Runnable
HasRunnable(t) == C10_RunnableEdges(t) # {}
MappedRunnable(t) == To(C10_First(C10_RunnableEdges(t)))

\* C11: in the generated definition of a task the sources list names the
\* resolved file of every Input and every Output node with an edge into the
\* task (as stated; get_task_sources only follows edges from I-ids).
C11_SourcesOfInputsAndOutputs ==
    pc = "generated" =>
        \A p \in 1..Len(generated) :
            generated[p].body.kind = "smart_task" =>
                \A i \in C9_SourceEdges(DefinedTask(p)) :
                    \E k \in 1..Len(generated[p].body.sources.paths) :
                        EvalPath(generated[p].body.sources.paths[k]) = Filename(From(i))

\* C12: in the generated definition of a task the targets list names the
\* resolved file of every Output and every Export node its mapped Runnable
\* has an edge to (as stated; get_task_targets only follows edges to O-ids).
C12_TargetsOfOutputsAndExports ==
    pc = "generated" =>
        \A p \in 1..Len(generated) :
            (generated[p].body.kind = "smart_task" /\ HasRunnable(DefinedTask(p))) =>
                \A i \in EdgeIdx :
                    (/\ From(i) = MappedRunnable(DefinedTask(p))
                     /\ To(i) \in OutputIds \cup ExportIds) =>
                        \E k \in 1..Len(generated[p].body.targets) :
                            EvalF(generated[p].body.targets[k]) = Filename(To(i))

\* C13: a task whose mapped Runnable carries a command without the
\* managed-script prefix is defined with a smart_task call whose one command
\* is the Runnable's command with both placeholders resolved, never with the
\* stub (as stated; get_task_command knows container commands and managed
\* scripts only).
C13_GenericCommandInvoked ==
    pc = "generated" =>
        \A p \in 1..Len(generated) :
            (/\ HasRunnable(DefinedTask(p))
             /\ ~StartsWith(NodeById(MappedRunnable(DefinedTask(p))).content, ScriptPrefix)) =>
                /\ generated[p].body.kind = "smart_task"
                /\ Len(generated[p].body.commands) = 1
                /\ EvalF(generated[p].body.commands[1].text) =
                      Resolve(NodeById(MappedRunnable(DefinedTask(p))).content, ProjectName, cwd)

C15_Parts(command) == SplitWs(SubSeq(command, Len(ScriptPrefix) + 1, Len(command)))

C15_Arguments(command) ==
    [k \in 1..(Len(C15_Parts(command)) - 1) |->
        Resolve(C15_Parts(command)[k + 1], ProjectName, cwd)]

\* C15: for a task whose one Runnable carries a managed-script command, the
\* command of the analyzer and the call of the generator hold the script
\* identifier and, one by one, the arguments with the project-name token
\* and the working-directory token resolved (as stated; only the
\* project-name token is replaced in the arguments).
C15_ScriptArgumentsResolved ==
    /\ pc = "analyzed" =>
          LET t == analysis.task_id
          IN (/\ Cardinality(C10_RunnableEdges(t)) = 1
              /\ StartsWith(NodeById(MappedRunnable(t)).content, ScriptPrefix)) =>
                 LET command == NodeById(MappedRunnable(t)).content
                 IN analysis.runnable_cmd =
                      ScriptTag \o C15_Parts(command)[1] \o <<":">>
                          \o Join(C15_Arguments(command), <<":">>)
    /\ pc = "generated" =>
          \A p \in 1..Len(generated) :
              generated[p].body.kind = "script" =>
                  \A k \in 1..Len(generated[p].body.commands[1].call.args) :
                      LET value == EvalF(generated[p].body.commands[1].call.args[k])
                      IN ~Contains(value, BWV000) /\ ~Contains(value, PWD)

\* a Runnable declaration with the managed-script prefix and no script
C16_Malformed(decl) ==
    /\ Kind(decl.id) = "R"
    /\ StartsWith(decl.content, ScriptPrefix)
    /\ C15_Parts(decl.content) = <<>>

\* C16: parse_file on a diagram with a malformed managed-script Runnable
\* raises nothing and returns every node of the diagram, that Runnable among
\* them with its text as a generic command (as stated; _parse_runnables
\* raises IndexError on parts[0]).
C16_MalformedScriptIsGeneric ==
    (pc # "start" /\ \E k \in 1..Len(Diagrams[diagram].decls) :
                        C16_Malformed(Diagrams[diagram].decls[k])) =>
        /\ pc # "failed"
        /\ nodes = Diagrams[diagram].decls

\* C17: after one substitution no placeholder token is left in the text, and
\* a second substitution returns the same text (as stated; a project name or
\* a working directory that holds a token, or completes one with the text
\* around it, brings the token back).
C17_IdempotentAndComplete ==
    /\ pc \in {"resolved", "resolved_twice"} =>
          ~Contains(once, BWV000) /\ ~Contains(once, PWD)
    /\ pc = "resolved_twice" => twice = once

C18_InputFile(i) == ResolvedFile(From(i))

\* C18: the files and the command that analyze_task_dependencies returns
\* have every project-name token and every working-directory token of the
\* node contents replaced, and the returned task names are the node contents
\* as written (as stated; file names only have the project-name token
\* replaced).
C18_UniformSubstitution ==
    /\ pc = "analyzed" =>
          /\ analysis.inputs = Listed(C9_SourceEdges(analysis.task_id), C18_InputFile)
          /\ \A k \in 1..Len(analysis.outputs) :
                ~Contains(analysis.outputs[k], BWV000) /\ ~Contains(analysis.outputs[k], PWD)
          /\ ~Contains(analysis.runnable_cmd, BWV000)
          /\ ~Contains(analysis.runnable_cmd, PWD)
    /\ pc = "sorted" =>
          \A k \in 1..Len(task_names) : task_names[k] = NodeById(result[k]).content

\* an Export node nothing is fed from
C19_Unconsumed(e) == \A i \in EdgeIdx : From(i) # e

\* C19: get_final_tasks_from_listener returns exactly the names of the tasks
\* t with edges t -> r and r -> e, r a Runnable and e an Export node without
\* an outgoing edge (as stated; the code does not look at the edges that
\* leave the Export).
C19_FinalTasksExactly ==
    pc = "all" =>
        Range(final_tasks) =
            {TaskName(t) : t \in {u \in TaskIds :
                \E r \in RunnableIds : \E e \in ExportIds :
                    /\ <<u, r>> \in EdgeSet
                    /\ <<r, e>> \in EdgeSet
                    /\ C19_Unconsumed(e)}}

C20_Pdf == <<"b", "w", "v", "1", "0", "0", "6", ".", "p", "d", "f">>

\* C20: for the text I1[BWV000.ly] --> T1[build_pdf] --> R1[render BWV000]
\* --> O1[BWV000.pdf], read to its end, the edges are I1->T1, T1->R1,
\* R1->O1, build_pdf has the sources [bwv1006.ly] and the targets
\* [bwv1006.pdf], and the order is [build_pdf] (as stated; the edge pattern
\* finds no edge behind a closing bracket).
C20_LinearScenario ==
    (/\ Diagrams[diagram].decls = <<DI1, DT1, DR1, DO1>>
     /\ cursor = Len(Diagrams[diagram].lines)
     /\ Len(edges) = Len(Diagrams[diagram].lines)) =>
        /\ pc \in {"analyzed", "sorted", "info"} =>
              edges = << <<I1, T1>>, <<T1, R1>>, <<R1, O1>> >>
        /\ pc = "analyzed" =>
              /\ analysis.inputs = <<C9_Ly>>
              /\ analysis.outputs = <<C20_Pdf>>
        /\ pc = "sorted" => task_names = <<BuildPdf>>

C21_Declared == {nodes[i].id : i \in 1..Len(nodes)}

\* an edge both of whose endpoints are declared nodes
C21_Sound(a, b) == <<a, b>> \in EdgeSet /\ a \in C21_Declared /\ b \in C21_Declared

\* the dependencies the edge list gives once every dangling edge is removed
C21_SoundDependencies(t) ==
    {tp \in TaskIds \ {t} :
        \E r \in RunnableIds : \E o \in C21_Declared :
            C21_Sound(tp, r) /\ C21_Sound(r, o) /\ C21_Sound(o, t)}

C21_SoundPrerequisites(t) ==
    {tp \in TaskIds :
        \/ C21_Sound(tp, t)
        \/ \E r \in C21_Declared : \E o \in C21_Declared :
              /\ Kind(r) = "R" /\ Kind(o) = "O"
              /\ C21_Sound(tp, r) /\ C21_Sound(r, o) /\ C21_Sound(o, t)}

\* C21: with dangling edges in the edge list nothing raises, every declared
\* node is in the pipeline, and the dependency sets of the scheduler and of
\* trace_task_dependencies are those of the edge list without the dangling
\* edges (as stated; a path through an undeclared Output id still makes a
\* dependency).
C21_DanglingContributesNothing ==
    /\ (Exists(diagram) /\ pc \in {"edges", "kahn", "sorted", "analyzed", "traced"}) =>
          nodes = Diagrams[diagram].decls
    /\ pc \in {"kahn", "sorted"} =>
          \A t \in TaskIds : Range(dependencies[t]) = C21_SoundDependencies(t)
    /\ pc = "traced" =>
          Range(traced.deps) = {TaskName(tp) : tp \in C21_SoundPrerequisites(traced.task_id)}

\* C22: for the text whose T1 lacks its closing bracket parse_file returns,
\* the node without the bracket is in no table, and every declaration that
\* has its brackets is in the pipeline with its own content and description
\* (as stated; the pattern runs on to the next closing bracket, so T1 is
\* stored with the text of T2 in its name and T2 is not found).
C22_MalformedNodeSkipped ==
    (/\ Exists(diagram)
     /\ Diagrams[diagram].decls = ParseDeclarations(MalformedText)
     /\ pc # "start") =>
        /\ pc # "failed"
        /\ \A k \in 1..Len(MalformedText) :
              IF MalformedText[k].closed
              THEN MalformedText[k].decl \in Range(nodes)
              ELSE MalformedText[k].decl.id \notin C21_Declared

\* C23: for a missing diagram file parse_file returns the empty Pipeline,
\* the scheduler returns the empty list, and mermaid_run('all') reports that
\* no tasks were found and runs nothing.
C23_MissingFileIsEmpty ==
    (~Exists(diagram) /\ pc # "start") =>
        /\ pc # "failed"
        /\ nodes = <<>>
        /\ edges = <<>>
        /\ pc = "sorted" => task_names = <<>>
        /\ pc = "ran" => reported = "no_tasks" /\ executed = <<>>

\* C23 witness: mermaid_run('all') has returned for the missing file
C23_Witness ==
    /\ ~Exists(diagram)
    /\ pc = "ran"
    /\ reported = "no_tasks"

\* C24: the output file is written at most once, with the complete text
\* generated before, and a run that fails or finds no file leaves the file
\* as it was.
C24_SingleWriteAfterRendering ==
    /\ writes <= 1
    /\ writes = 0 => output_file = Previous
    /\ writes = 1 =>
          \/ /\ pc = "written"
             /\ output_file = generated
             /\ Len(generated) = Len(TaskNodesOfListener)
          \/ /\ pc = "meta_written"
             /\ output_file = MetaTasks(final_tasks)
    /\ pc \in {"written", "meta_written"} => writes = 1
    /\ pc = "not_generated" => writes = 0

\* C24 witness: a text of two definitions has been written
C24_Witness ==
    /\ pc = "written"
    /\ writes = 1
    /\ Len(output_file) >= 2

\* a task on a cycle of two or more tasks
C25_OnCycle(t) ==
    \E u \in TaskIds \ {t} :
        /\ ReachIn(t, u, Cardinality(TaskIds))
        /\ ReachIn(u, t, Cardinality(TaskIds))

\* C25: the scheduler returns, and no task on a dependency cycle is in the
\* returned list (as stated; a cycle closed by a direct task-to-task edge
\* is not seen by the scheduler, and its tasks are returned).
C25_CyclicTasksAbsent ==
    pc = "sorted" => \A t \in TaskIds : C25_OnCycle(t) => ~Emitted(t)

\* no element of the list occurs twice
C27_NoRepeat(s) == \A i, j \in 1..Len(s) : s[i] = s[j] => i = j

\* C27 as stated: in the Kahn loop no in-degree is negative, no task id is
\* in the queue twice or enqueued after it was emitted, no id is twice in
\* result, and the returned list of names has no duplicates and is no
\* longer than the number of Task nodes.
C27_KahnInvariantsNames ==
    /\ pc \in {"kahn", "sorted"} =>
          /\ \A t \in TaskIds : in_degree[t] >= 0
          /\ C27_NoRepeat(queue \o result)
          /\ Len(result) <= Cardinality(TaskIds)
    /\ pc = "sorted" =>
          /\ C27_NoRepeat(task_names)
          /\ Len(task_names) <= Cardinality(TaskIds)

\* C27 as amended: the same for the ids; the returned list holds one name
\* per emitted id, so it is no longer than the number of Task nodes and
\* repeats a name only when two Task nodes carry it.
C27_KahnInvariants ==
    /\ pc \in {"kahn", "sorted"} =>
          /\ \A t \in TaskIds : in_degree[t] >= 0
          /\ C27_NoRepeat(queue \o result)
          /\ Range(queue) \cup Range(result) \subseteq TaskIds
          /\ Len(result) <= Cardinality(TaskIds)
    /\ pc = "sorted" =>
          /\ Len(task_names) = Len(result)
          /\ Len(task_names) <= Cardinality(TaskIds)
          /\ \A i, j \in 1..Len(task_names) :
                (task_names[i] = task_names[j] /\ i # j) =>
                    (result[i] # result[j] /\ TaskName(result[i]) = TaskName(result[j]))

\* C27 witness: the loop emitted a task and released the one that waited
C27_Witness ==
    /\ pc = "kahn"
    /\ Len(result) >= 1
    /\ queue # <<>>
    /\ \E t \in Range(queue) : dependencies[t] # <<>>

\* C28: the Kahn loop, once entered, is left with the queue empty, and it
\* never runs more often than there are Task nodes, cycle or no cycle.
C28_Terminates ==
    /\ [](pc = "kahn" => Len(result) <= Cardinality(TaskIds))
    /\ (pc = "kahn") ~> (pc = "sorted" /\ queue = <<>>)

\* C28 witness: the loop was left with the tasks of a cycle never queued
C28_Witness ==
    /\ pc = "sorted"
    /\ queue = <<>>
    /\ \E t \in TaskIds : OnCycle(t) /\ ~Emitted(t)

\* C29: the command and the outputs that analyze_task_dependencies returns
\* for a task come from one and the same Runnable with an edge from the task
\* (as stated; the command is that of the last such Runnable in the edge
\* list, the outputs are those of the first).
C29_OutputsOf(r) ==
    Listed({i \in EdgeIdx : From(i) = r /\ To(i) \in OutputIds \cup ExportIds}, C10_TargetFile)

C29_SameRunnable ==
    (pc = "analyzed" /\ HasRunnable(analysis.task_id)) =>
        \E r \in RunnableIds :
            /\ <<analysis.task_id, r>> \in EdgeSet
            /\ analysis.runnable_cmd = RunnableCommand(r)
            /\ analysis.outputs = C29_OutputsOf(r)

\* a message that ends a note: note_off of any velocity, or note_on with
\* velocity 0
C26_NoteEnd(message) ==
    \/ message.type = "note_off"
    \/ message.type = "note_on" /\ message.velocity = 0

\* C26: every note-end message for a pitch with a pending note closes the
\* earliest pending note of the pitch and records one event: that note's
\* start tick, the current tick, and the channel of the message that
\* started it (as stated; a note_off with a release velocity above 0 is
\* ignored).
C26_NoteEndClosesEarliest ==
    [][(/\ pc = "midi"
        /\ messages # <<>>
        /\ C26_NoteEnd(Head(messages))
        /\ Pending(note_stack, Head(messages).note) # <<>>) =>
          LET message == Head(messages)
              pending == Pending(note_stack, message.note)
          IN /\ note_events' =
                   Append(note_events,
                          [midi |-> message.note,
                           on_tick |-> Head(pending).start_tick,
                           off_tick |-> current_tick',
                           channel |-> Head(pending).channel])
             /\ Pending(note_stack', message.note) = Tail(pending)]_vars

\* C30: the script name and the arguments that _run_single_mermaid_task
\* decodes are the script name and the arguments that _parse_runnables
\* encoded, in number, value and order (as stated; an argument that holds a
\* colon is decoded as several arguments).
C30_RoundTrip ==
    pc = "decoded" =>
        LET parts == SplitWs(SubSeq(runnable_text, Len(ScriptPrefix) + 1,
                                    Len(runnable_text)))
        IN /\ decoded.script = parts[1]
           /\ decoded.args =
                 [i \in 1..(Len(parts) - 1) |-> Replace(parts[i + 1], BWV000, ProjectName)]

====
